---- MODULE Spec2Model ----
(***************************************************************************)
(* A model of the grading orchestration layer of AI-CodeGrader: the        *)
(* response parser (prompts/builders.py), the rubric check                 *)
(* (src/models/grading_input.py), the iterative Evaluator-Optimizer        *)
(* strategy (src/graders/evaluator_optimizer_grader.py), the voting        *)
(* strategy (src/agentic/voting_system.py, src/llm/client.py), the result  *)
(* builder and the single-call strategies (src/graders/base_grader.py,     *)
(* cot_grader.py, few_shot_cot_grader.py) and the batch entry point        *)
(* (api/main.py).                                                          *)
(*                                                                         *)
(* Texts are sequences of tokens.  The token "a" is the text  "a":1  (a    *)
(* member inside braces, noise outside), "FENCE" is the code fence (three  *)
(* backquotes), "FENCEjson" the fence followed by                          *)
(* the tag, "\n" is the only whitespace.  Points are counted in units of   *)
(* 0.005 point, so that 0.01 point is 2 units.                             *)
(***************************************************************************)
EXTENDS Integers, Sequences, FiniteSets, TLC

VARIABLES
    text,           \* the response text handed to ResponseParser.extract_json
    parse_pc,       \* "idle" | "called" | "returned" | "raised"
    parse_result    \* what extract_json returned

parse_vars == <<text, parse_pc, parse_result>>

VARIABLES
    rubric,         \* a GradingRubric: [criteria, total_points]
    rubric_pc,      \* "idle" | "called" | "returned"
    rubric_valid    \* what GradingRubric.validate_total returned

rubric_vars == <<rubric, rubric_pc, rubric_valid>>

VARIABLES
    request,            \* the GradingRequest handed to grade()
    max_iterations,     \* EvaluatorOptimizerGrader.max_iterations
    it_pc,              \* where EvaluatorOptimizerGrader.grade stands
    iteration,          \* the loop variable of the refinement loop
    current_grade,      \* the parsed grade that is current
    iteration_history,  \* the (grade, critique) pairs
    evaluator_calls,    \* LLM calls issued by Evaluator.grade and Evaluator.refine
    refine_calls,       \* LLM calls issued by Evaluator.refine
    optimizer_calls,    \* LLM calls issued by Optimizer.critique
    it_result,          \* the GradingResult returned
    it_error            \* the error raised

iter_vars ==
    <<max_iterations, it_pc, iteration, current_grade, iteration_history,
      evaluator_calls, refine_calls, optimizer_calls, it_result, it_error>>

VARIABLES
    num_voters,         \* VotingSystem.num_voters
    temperature_range,  \* VotingGrader.temperature_range: <<min_temp, max_temp>>
    vote_pc,            \* where VotingGrader.grade stands
    voter_requests,     \* the requests handed to batch_chat_completions
    tasks,              \* the state of each chat_completion_async task
    responses,          \* what batch_chat_completions returned
    grades,             \* the (voter index, parsed response) pairs
    vote_result,        \* the GradingResult returned
    vote_error,         \* the error raised
    first_done          \* the voter whose call completed first (0: none yet)

vote_vars ==
    <<num_voters, temperature_range, vote_pc, voter_requests, tasks, responses,
      grades, vote_result, vote_error, first_done>>

VARIABLES
    direct_strategy,    \* "cot" (ChainOfThoughtGrader) | "few_shot_cot"
    direct_pc,          \* where grade() of the single-call grader stands
    direct_calls,       \* LLM calls issued by this grade()
    direct_response,    \* the response of the LLM call
    direct_result,      \* the GradingResult returned
    direct_error        \* the error raised

direct_vars ==
    <<direct_strategy, direct_pc, direct_calls, direct_response, direct_result,
      direct_error>>

VARIABLES
    batch_request,      \* the BatchGradingRequest handed to the endpoint
    batch_pc,           \* where grade_submissions_batch stands
    results,            \* the BatchItemResult entries made so far
    ok,                 \* the count of items graded without an exception
    batch_response      \* the BatchGradingResult returned

batch_vars == <<batch_request, batch_pc, results, ok, batch_response>>

vars ==
    <<parse_vars, rubric_vars, request, iter_vars, vote_vars, direct_vars,
      batch_vars>>

\* what each component leaves alone
ParseFrame ==
    UNCHANGED <<rubric_vars, request, iter_vars, vote_vars, direct_vars, batch_vars>>
RubricFrame ==
    UNCHANGED <<parse_vars, request, iter_vars, vote_vars, direct_vars, batch_vars>>
IterFrame ==
    UNCHANGED <<parse_vars, rubric_vars, request, vote_vars, direct_vars, batch_vars>>
VoteFrame ==
    UNCHANGED <<parse_vars, rubric_vars, request, iter_vars, direct_vars, batch_vars>>
DirectFrame ==
    UNCHANGED <<parse_vars, rubric_vars, request, iter_vars, vote_vars, batch_vars>>
BatchFrame ==
    UNCHANGED <<parse_vars, rubric_vars, request, iter_vars, vote_vars, direct_vars>>

\* ------------------------------------------------------------------ bounds

MaxPieces == 4
MaxCriteria == 2
MaxIterations == 4
MaxVoters == 3
MaxSubmissions == 3

\* ------------------------------------------------------------ small helpers

Min(S) == CHOOSE x \in S : \A y \in S : x <= y

Max(S) == CHOOSE x \in S : \A y \in S : y <= x

SeqsUpTo(S, n) == UNION {[1..k -> S] : k \in 0..n}

\* dict.get(key, default)
Get(d, key, default) == IF key \in DOMAIN d THEN d[key] ELSE default

\* --------------------------------------------------------- response parser

Tokens == {"{", "}", "a", "FENCE", "FENCEjson", "\n"}

NoWhitespace(s) == SelectSeq(s, LAMBDA c : c # "\n")

JSONDecodeError == [ok |-> FALSE, value |-> <<>>]

\* json.loads on a token text: whitespace is skipped, the text must be one
\* object, either {} or {"a":1}; its value is the dict.
json_loads(s) ==
    IF NoWhitespace(s) = <<"{", "a", "}">> THEN [ok |-> TRUE, value |-> [a |-> 1]]
    ELSE IF NoWhitespace(s) = <<"{", "}">> THEN [ok |-> TRUE, value |-> <<>>]
    ELSE JSONDecodeError

IsFence(c) == c \in {"FENCE", "FENCEjson"}

RECURSIVE NewlineRun(_, _)
NewlineRun(s, i) ==
    IF i <= Len(s) /\ s[i] = "\n" THEN 1 + NewlineRun(s, i + 1) ELSE 0

NoMatch == [matched |-> FALSE, group |-> <<>>]

\* The pattern FENCE(?:json)?\s*\n(.*?)\nFENCE anchored at token p: after the
\* fence (and its tag) a run of k >= 1 newlines, of which \s* takes all but
\* the last; the lazy group ends at the first newline-fence after the run, and when
\* there is none the pattern backtracks to an empty group closed by the last
\* newline of the run.
FenceMatchAt(s, p) ==
    LET k == NewlineRun(s, p + 1)
        c0 == p + 1 + k
        closes == {j \in c0..(Len(s) - 1) : s[j] = "\n" /\ IsFence(s[j + 1])}
    IN  IF ~IsFence(s[p]) \/ k < 1 THEN NoMatch
        ELSE IF closes # {}
            THEN [matched |-> TRUE, group |-> SubSeq(s, c0, Min(closes) - 1)]
        ELSE IF k >= 2 /\ c0 <= Len(s) /\ IsFence(s[c0])
            THEN [matched |-> TRUE, group |-> <<>>]
        ELSE NoMatch

\* re.search: the leftmost match
re_search(s) ==
    LET starts == {p \in 1..Len(s) : FenceMatchAt(s, p).matched}
    IN  IF starts = {} THEN NoMatch ELSE FenceMatchAt(s, Min(starts))

\* the brace scan, from character i on
RECURSIVE BraceScan(_, _, _, _)
BraceScan(s, i, brace_count, start_idx) ==
    IF i > Len(s) THEN JSONDecodeError
    ELSE IF s[i] = "{" THEN
        BraceScan(s, i + 1, brace_count + 1,
                  IF brace_count = 0 THEN i ELSE start_idx)
    ELSE IF s[i] = "}" THEN
        IF brace_count - 1 = 0 /\ start_idx # -1 THEN
            IF json_loads(SubSeq(s, start_idx, i)).ok
                THEN json_loads(SubSeq(s, start_idx, i))
                ELSE BraceScan(s, i + 1, 0, -1)
        ELSE BraceScan(s, i + 1, brace_count - 1, start_idx)
    ELSE BraceScan(s, i + 1, brace_count, start_idx)

\* brace_count after the first k characters: one up at every opening
\* brace, one down at every closing brace
brace_count_after(s, k) ==
    Cardinality({i \in 1..k : s[i] = "{"}) - Cardinality({i \in 1..k : s[i] = "}"})

RECURSIVE BraceScanOnce(_, _, _, _)
BraceScanOnce(s, i, brace_count, start_idx) ==
    IF i > Len(s) THEN JSONDecodeError
    ELSE IF s[i] = "{" THEN
        BraceScanOnce(s, i + 1, brace_count + 1,
                      IF brace_count = 0 THEN i ELSE start_idx)
    ELSE IF s[i] = "}" THEN
        IF brace_count - 1 = 0 /\ start_idx # -1
            THEN json_loads(SubSeq(s, start_idx, i))
            ELSE BraceScanOnce(s, i + 1, brace_count - 1, start_idx)
    ELSE BraceScanOnce(s, i + 1, brace_count, start_idx)

ScanAttempt_first_span_only(s) == BraceScanOnce(s, 1, 0, -1)

DirectAttempt(s) == json_loads(s)

FencedAttempt(s) ==
    IF re_search(s).matched THEN json_loads(re_search(s).group) ELSE JSONDecodeError

ScanAttempt(s) == BraceScan(s, 1, 0, -1)

extract_json_scan_first(s) ==
    IF DirectAttempt(s).ok THEN DirectAttempt(s)
    ELSE IF ScanAttempt(s).ok THEN ScanAttempt(s)
    ELSE FencedAttempt(s)

\* ResponseParser.extract_json: ok = FALSE stands for the ValueError
extract_json(s) ==
    IF DirectAttempt(s).ok THEN DirectAttempt(s)
    ELSE IF FencedAttempt(s).ok THEN FencedAttempt(s)
    ELSE ScanAttempt(s)

\* the pieces a response text is made of: noise, whitespace, braces, the two
\* objects, an opening fence with its newline (bare or tagged json), a
\* closing fence with its newline, a fence without newline
Pieces ==
    { <<"a">>, <<"\n">>, <<"{">>, <<"}">>,
      <<"{", "a", "}">>, <<"{", "}">>,
      <<"FENCE", "\n">>, <<"FENCEjson", "\n">>, <<"\n", "FENCE">>, <<"FENCE">> }

RECURSIVE Concat(_)
Concat(ps) == IF ps = <<>> THEN <<>> ELSE Head(ps) \o Concat(Tail(ps))

Texts == {Concat(ps) : ps \in SeqsUpTo(Pieces, MaxPieces)}

ParseInit ==
    /\ text \in Texts
    /\ parse_pc = "called"
    /\ parse_result = JSONDecodeError

ParseIdle ==
    /\ text = <<>>
    /\ parse_pc = "idle"
    /\ parse_result = JSONDecodeError

ExtractJson ==
    /\ parse_pc = "called"
    /\ parse_result' = extract_json(text)
    /\ parse_pc' = IF extract_json(text).ok THEN "returned" ELSE "raised"
    /\ UNCHANGED text
    /\ ParseFrame

ParseNext == ExtractJson

\* ------------------------------------------------------------------ rubric

\* 0.01 point, in units of 0.005 point
Tolerance == 2

Abs(x) == IF x < 0 THEN -x ELSE x

RECURSIVE SumMaxPoints(_)
SumMaxPoints(criteria) ==
    IF criteria = <<>> THEN 0
    ELSE Head(criteria).max_points + SumMaxPoints(Tail(criteria))

validate_total_inclusive(r) ==
    Abs(SumMaxPoints(r.criteria) - r.total_points) <= Tolerance

\* GradingRubric.validate_total
validate_total(r) ==
    Abs(SumMaxPoints(r.criteria) - r.total_points) < Tolerance

\* criteria of 3, 5, 5.005 and 5.015 points; totals of 8, 10 and 10.01 points
CriterionChoices ==
    [name : {"Correctness", "Quality"}, max_points : {600, 1000, 1001, 1003}]

TotalChoices == {1600, 2000, 2002}

Rubrics ==
    [criteria : SeqsUpTo(CriterionChoices, MaxCriteria) \ {<<>>},
     total_points : TotalChoices]

NoRubric == [criteria |-> <<>>, total_points |-> 0]

RubricInit ==
    /\ rubric \in Rubrics
    /\ rubric_pc = "called"
    /\ rubric_valid = FALSE

RubricIdle ==
    /\ rubric = NoRubric
    /\ rubric_pc = "idle"
    /\ rubric_valid = FALSE

ValidateTotal ==
    /\ rubric_pc = "called"
    /\ rubric_valid' = validate_total(rubric)
    /\ rubric_pc' = "returned"
    /\ UNCHANGED rubric
    /\ RubricFrame

RubricNext == ValidateTotal

\* ---------------------------------------------------------------- numbers

\* Scores that need not be whole units (a mean, a percentage) are fractions
\* [n, d] with d > 0, kept in lowest terms.
RECURSIVE GCD(_, _)
GCD(a, b) == IF b = 0 THEN a ELSE GCD(b, a % b)

Rat(n, d) == LET g == GCD(Abs(n), d) IN [n |-> n \div g, d |-> d \div g]

Whole(i) == [n |-> i, d |-> 1]

RatAdd(x, y) == Rat(x.n * y.d + y.n * x.d, x.d * y.d)

RatSub(x, y) == Rat(x.n * y.d - y.n * x.d, x.d * y.d)

\* x * i and x / i, for an integer i (i > 0 in the division)
RatTimes(x, i) == Rat(x.n * i, x.d)

RatOver(x, i) == Rat(x.n, x.d * i)

RatLeq(x, y) == x.n * y.d <= y.n * x.d

\* (score / total_points) * 100
Percentage(score, total_points) == Rat(score.n * 100, score.d * total_points)

\* --------------------------------------------------------------- requests

ValidRubric ==
    [criteria |-> << [name |-> "Correctness", max_points |-> 1000],
                     [name |-> "Quality", max_points |-> 600] >>,
     total_points |-> 1600]

\* the criteria sum to 8 points, the total says 10
InconsistentRubric == [ValidRubric EXCEPT !.total_points = 2000]

GoodRequest ==
    [problem_description |-> "Return the maximum of two integers.",
     reference_solution |-> "int max(int a, int b) { return a > b ? a : b; }",
     student_code |-> "int max(int a, int b) { return a; }",
     rubric |-> ValidRubric]

Requests ==
    { GoodRequest,
      [GoodRequest EXCEPT !.rubric = InconsistentRubric],
      [GoodRequest EXCEPT !.student_code = ""],
      [GoodRequest EXCEPT !.problem_description = ""],
      [GoodRequest EXCEPT !.reference_solution = ""] }

NoRequest ==
    [problem_description |-> "", reference_solution |-> "", student_code |-> "",
     rubric |-> NoRubric]

\* GradingRequest.validate_rubric
validate_rubric(req) == validate_total(req.rubric)

\* BaseGrader.validate_request
validate_request(req) ==
    IF ~validate_rubric(req) THEN FALSE
    ELSE IF req.problem_description = "" \/ req.student_code = "" THEN FALSE
    ELSE TRUE

\* ---------------------------------------------------------- LLM responses

\* A response of the LLM is a text; payload says which dict the member "a"
\* of the text stands for.
PlainText == <<"{", "a", "}">>
ProseText == <<"a", "\n", "{", "a", "}">>
FencedText == <<"FENCEjson", "\n", "{", "a", "}", "\n", "FENCE">>
EmptyObjectText == <<"{", "}">>
GarbageText == <<"a", "}">>

\* the dict extract_json returns for a response, ok = FALSE when it raises
ParseResponse(r) ==
    LET p == extract_json(r.text)
    IN  [ok |-> p.ok,
         value |-> IF p.ok /\ p.value = [a |-> 1] THEN r.payload ELSE <<>>]

\* --------------------------------------------------------- result builder

NoResult ==
    [final_score |-> Whole(0), total_points |-> 0, percentage |-> Whole(0),
     breakdown |-> <<>>, overall_feedback |-> "", grading_strategy |-> ""]

\* the constraints of the CriterionScore fields
CriterionScoreValid(c) ==
    /\ RatLeq(Whole(0), c.points_awarded)
    /\ c.max_points > 0
    /\ Len(c.feedback) >= 5

GradingResultValid_feedback_only(r) == Len(r.overall_feedback) >= 10

\* the constraints of the GradingResult fields
GradingResultValid(r) ==
    /\ RatLeq(Whole(0), r.final_score)
    /\ r.total_points > 0
    /\ RatLeq(Whole(0), r.percentage) /\ RatLeq(r.percentage, Whole(100))
    /\ Len(r.breakdown) >= 1
    /\ Len(r.overall_feedback) >= 10

BuildCriterionScore_one_spelling(item) ==
    [criterion_name |-> Get(item, "criterion", ""),
     points_awarded |-> Whole(Get(item, "score", 0)),
     max_points |-> Get(item, "max_score", 0),
     feedback |-> Get(item, "feedback", "")]

\* the CriterionScore _build_result makes of one breakdown item
BuildCriterionScore(item) ==
    [criterion_name |-> Get(item, "criterion", Get(item, "criterion_name", "")),
     points_awarded |-> Whole(Get(item, "score", Get(item, "points_awarded", 0))),
     max_points |-> Get(item, "max_score", Get(item, "max_points", 0)),
     feedback |-> Get(item, "feedback", "")]

\* total_possible as the response states it, the rubric's when it states none
stated_total_possible(parsed_response, req) ==
    Get(Get(parsed_response, "final_grade", <<>>), "total_possible",
        req.rubric.total_points)

total_possible_as_stated(parsed_response, req) ==
    stated_total_possible(parsed_response, req)

\* "Ensure we have the right total": total_possible after the override
total_possible_of(parsed_response, req) ==
    IF stated_total_possible(parsed_response, req) # req.rubric.total_points
        THEN req.rubric.total_points
        ELSE stated_total_possible(parsed_response, req)

\* the percentage of the result: recomputed only in the override, and there
\* only when total_score > 0
percentage_of(parsed_response, req) ==
    LET final_grade == Get(parsed_response, "final_grade", <<>>)
        total_score == Get(final_grade, "total_score", 0)
    IN  IF /\ stated_total_possible(parsed_response, req) # req.rubric.total_points
           /\ total_score > 0
            THEN Percentage(Whole(total_score), req.rubric.total_points)
            ELSE Get(final_grade, "percentage", Whole(0))

\* BaseGrader._build_result: ok = FALSE stands for pydantic's ValidationError
build_result(parsed_response, req, strategy_name) ==
    LET final_grade == Get(parsed_response, "final_grade", <<>>)
        breakdown_data == Get(parsed_response, "breakdown", <<>>)
        total_score == Get(final_grade, "total_score", 0)
        total_possible == total_possible_of(parsed_response, req)
        percentage == percentage_of(parsed_response, req)
        breakdown == [i \in 1..Len(breakdown_data) |->
                         BuildCriterionScore(breakdown_data[i])]
        result ==
            [final_score |-> Whole(total_score),
             total_points |-> total_possible,
             percentage |-> percentage,
             breakdown |-> breakdown,
             overall_feedback |->
                 Get(final_grade, "overall_feedback",
                     Get(parsed_response, "overall_feedback", "")),
             grading_strategy |-> strategy_name]
    IN  IF /\ \A i \in 1..Len(breakdown) : CriterionScoreValid(breakdown[i])
           /\ GradingResultValid(result)
            THEN [ok |-> TRUE, value |-> result]
            ELSE [ok |-> FALSE, value |-> NoResult]

\* ----------------------------------------- iterative critique-refine strategy

FullGrade ==
    [final_grade |->
        [total_score |-> 1400, total_possible |-> 1600,
         percentage |-> Rat(175, 2),
         overall_feedback |-> "Solid work with small style issues."],
     breakdown |->
        << [criterion |-> "Correctness", score |-> 1000, max_score |-> 1000,
            feedback |-> "Handles every case."],
           [criterion |-> "Quality", score |-> 400, max_score |-> 600,
            feedback |-> "Naming could be clearer."] >>]

HarshGrade ==
    [final_grade |->
        [total_score |-> 800, total_possible |-> 1600,
         percentage |-> Whole(50),
         overall_feedback |-> "The solution ignores one branch."],
     breakdown |->
        << [criterion |-> "Correctness", score |-> 600, max_score |-> 1000,
            feedback |-> "Wrong when b is larger."],
           [criterion |-> "Quality", score |-> 200, max_score |-> 600,
            feedback |-> "Hard to read."] >>]

\* what the LLM may answer the Evaluator
EvaluatorResponses ==
    { [text |-> PlainText, payload |-> FullGrade],
      [text |-> ProseText, payload |-> HarshGrade],
      [text |-> EmptyObjectText, payload |-> <<>>],
      [text |-> GarbageText, payload |-> <<>>] }

AnIssue ==
    [criterion |-> "Quality", issue |-> "too harsh", suggested_score |-> 500]

\* what the LLM may answer the Optimizer
OptimizerResponses ==
    { [text |-> PlainText, payload |-> [approved |-> TRUE, issues_found |-> <<>>]],
      [text |-> PlainText, payload |-> [approved |-> TRUE, issues_found |-> <<AnIssue>>]],
      [text |-> PlainText, payload |-> [approved |-> FALSE, issues_found |-> <<>>]],
      [text |-> FencedText, payload |-> [approved |-> FALSE, issues_found |-> <<AnIssue>>]],
      [text |-> PlainText, payload |-> [issues_found |-> <<AnIssue>>]],
      [text |-> EmptyObjectText, payload |-> <<>>],
      [text |-> GarbageText, payload |-> <<>>] }

\* the dict Optimizer.critique returns for a parsed response
CritiqueOf(parsed) ==
    [approved |-> Get(parsed, "approved", FALSE),
     issues_found |-> Get(parsed, "issues_found", <<>>),
     overall_assessment |-> Get(parsed, "overall_assessment", ""),
     confidence |-> Get(parsed, "confidence", Rat(1, 2))]

\* Optimizer.has_issues
has_issues(critique) ==
    Len(Get(critique, "issues_found", <<>>)) > 0 /\ ~Get(critique, "approved", FALSE)

can_refine_full_budget(i) == i < max_iterations

\* the guard "not at max iterations" of the refinement
can_refine(i) == i < max_iterations - 1

in_range_inclusive(i) == i <= max_iterations

\* whether range(1, max_iterations) holds i
in_range(i) == i < max_iterations

next_step_ignoring_approval(critique, i) ==
    IF Len(Get(critique, "issues_found", <<>>)) > 0 /\ can_refine(i)
        THEN "refine" ELSE "build"

\* what the loop body does after a critique: stop when approved, refine
\* when there are issues and iterations remain, stop otherwise
next_step(critique, i) ==
    IF Get(critique, "approved", FALSE) THEN "build"
    ELSE IF has_issues(critique) /\ can_refine(i) THEN "refine"
    ELSE "build"

IterIdle ==
    /\ max_iterations = 0
    /\ it_pc = "idle"
    /\ iteration = 0
    /\ current_grade = <<>>
    /\ iteration_history = <<>>
    /\ evaluator_calls = 0
    /\ refine_calls = 0
    /\ optimizer_calls = 0
    /\ it_result = NoResult
    /\ it_error = "none"

IterInit ==
    /\ request \in Requests
    /\ max_iterations \in 1..MaxIterations
    /\ it_pc = "called"
    /\ iteration = 0
    /\ current_grade = <<>>
    /\ iteration_history = <<>>
    /\ evaluator_calls = 0
    /\ refine_calls = 0
    /\ optimizer_calls = 0
    /\ it_result = NoResult
    /\ it_error = "none"

IterRaise_keeping_grade(e) ==
    /\ it_pc' = IF current_grade # <<>> THEN "build" ELSE "raised"
    /\ it_error' = e

IterRaise(e) ==
    /\ it_pc' = "raised"
    /\ it_error' = e

\* grade(), up to the first LLM call: the request is validated
IterValidate ==
    /\ it_pc = "called"
    /\ IF validate_request(request)
          THEN it_pc' = "evaluator_grade" /\ UNCHANGED it_error
          ELSE IterRaise("InvalidRequest")
    /\ UNCHANGED <<max_iterations, iteration, current_grade, iteration_history,
                   evaluator_calls, refine_calls, optimizer_calls, it_result>>
    /\ IterFrame

\* Step 1: Evaluator.grade fails in the transport
EvaluatorGradeFails ==
    /\ it_pc = "evaluator_grade"
    /\ evaluator_calls' = evaluator_calls + 1
    /\ IterRaise("TransportError")
    /\ UNCHANGED <<max_iterations, iteration, current_grade, iteration_history,
                   refine_calls, optimizer_calls, it_result>>
    /\ IterFrame

\* Step 1: Evaluator.grade gets a response; the loop is entered when
\* range(1, max_iterations) is not empty
EvaluatorGrade(r) ==
    /\ it_pc = "evaluator_grade"
    /\ evaluator_calls' = evaluator_calls + 1
    /\ IF ParseResponse(r).ok
          THEN /\ current_grade' = ParseResponse(r).value
               /\ iteration_history' = << <<ParseResponse(r).value, <<>> >> >>
               /\ iteration' = 1
               /\ it_pc' = IF in_range(1) THEN "critique" ELSE "build"
               /\ UNCHANGED it_error
          ELSE /\ IterRaise("UnparsableResponse")
               /\ UNCHANGED <<current_grade, iteration_history, iteration>>
    /\ UNCHANGED <<max_iterations, refine_calls, optimizer_calls, it_result>>
    /\ IterFrame

\* Step 2: Optimizer.critique fails in the transport
OptimizerCritiqueFails ==
    /\ it_pc = "critique"
    /\ optimizer_calls' = optimizer_calls + 1
    /\ IterRaise("TransportError")
    /\ UNCHANGED <<max_iterations, iteration, current_grade, iteration_history,
                   evaluator_calls, refine_calls, it_result>>
    /\ IterFrame

\* Step 2: Optimizer.critique gets a response; the critique is attached to
\* the current grade and decides between stopping and refining
OptimizerCritique(r) ==
    /\ it_pc = "critique"
    /\ optimizer_calls' = optimizer_calls + 1
    /\ IF ParseResponse(r).ok
          THEN LET critique == CritiqueOf(ParseResponse(r).value)
               IN  /\ iteration_history' =
                          [iteration_history EXCEPT ![Len(iteration_history)] =
                              <<current_grade, critique>>]
                   /\ it_pc' = next_step(critique, iteration)
                   /\ UNCHANGED it_error
          ELSE /\ IterRaise("UnparsableResponse")
               /\ UNCHANGED iteration_history
    /\ UNCHANGED <<max_iterations, iteration, current_grade, evaluator_calls,
                   refine_calls, it_result>>
    /\ IterFrame

\* Step 3: Evaluator.refine fails in the transport
EvaluatorRefineFails ==
    /\ it_pc = "refine"
    /\ evaluator_calls' = evaluator_calls + 1
    /\ refine_calls' = refine_calls + 1
    /\ IterRaise("TransportError")
    /\ UNCHANGED <<max_iterations, iteration, current_grade, iteration_history,
                   optimizer_calls, it_result>>
    /\ IterFrame

\* Step 3: Evaluator.refine gets a response; the refined grade becomes
\* current and the loop goes to its next iteration, if range() has one
EvaluatorRefine(r) ==
    /\ it_pc = "refine"
    /\ evaluator_calls' = evaluator_calls + 1
    /\ refine_calls' = refine_calls + 1
    /\ IF ParseResponse(r).ok
          THEN /\ current_grade' = ParseResponse(r).value
               /\ iteration_history' =
                      Append(iteration_history, <<ParseResponse(r).value, <<>> >>)
               /\ iteration' = iteration + 1
               /\ it_pc' = IF in_range(iteration + 1) THEN "critique" ELSE "build"
               /\ UNCHANGED it_error
          ELSE /\ IterRaise("UnparsableResponse")
               /\ UNCHANGED <<current_grade, iteration_history, iteration>>
    /\ UNCHANGED <<max_iterations, optimizer_calls, it_result>>
    /\ IterFrame

\* after the loop: the result is built from the current grade
IterBuildResult ==
    /\ it_pc = "build"
    /\ LET built == build_result(current_grade, request, "evaluator_optimizer")
       IN  IF built.ok
              THEN it_pc' = "returned" /\ it_result' = built.value /\ UNCHANGED it_error
              ELSE IterRaise("ValidationError") /\ UNCHANGED it_result
    /\ UNCHANGED <<max_iterations, iteration, current_grade, iteration_history,
                   evaluator_calls, refine_calls, optimizer_calls>>
    /\ IterFrame

IterNext ==
    \/ IterValidate
    \/ EvaluatorGradeFails
    \/ \E r \in EvaluatorResponses : EvaluatorGrade(r)
    \/ OptimizerCritiqueFails
    \/ \E r \in OptimizerResponses : OptimizerCritique(r)
    \/ EvaluatorRefineFails
    \/ \E r \in EvaluatorResponses : EvaluatorRefine(r)
    \/ IterBuildResult

\* -------------------------------------------------------- voting strategy

LowVote ==
    [breakdown |->
        << [criterion_name |-> "Correctness", points_awarded |-> 600,
            max_points |-> 1000, feedback |-> "Fails when b is larger."],
           [criterion_name |-> "Quality", points_awarded |-> 400,
            max_points |-> 600, feedback |-> "Readable enough."] >>,
     overall_feedback |-> "Partly correct solution."]

\* scores Correctness only
HighVote ==
    [breakdown |->
        << [criterion_name |-> "Correctness", points_awarded |-> 1000,
            max_points |-> 1000, feedback |-> "Handles every case."] >>,
     overall_feedback |-> "Correct and complete answer."]

\* the other key spelling, the criteria in the other order, the overall
\* feedback under final_grade
OtherSpellingVote ==
    [breakdown |->
        << [criterion |-> "Quality", score |-> 600, max_score |-> 600,
            feedback |-> "Clean and idiomatic."],
           [criterion |-> "Correctness", score |-> 1000, max_score |-> 1000,
            feedback |-> "All tests pass."] >>,
     final_grade |-> [overall_feedback |-> "Nothing to improve here."]]

\* the breakdown under final_grade, for a criterion the rubric does not have
NestedStyleVote ==
    [final_grade |->
        [breakdown |->
            << [criterion_name |-> "Style", points_awarded |-> 400,
                max_points |-> 400, feedback |-> "Nice layout."] >>,
         overall_feedback |-> "Well formatted code."]]

\* the same criterion twice
TwiceVote ==
    [breakdown |->
        << [criterion_name |-> "Correctness", points_awarded |-> 1000,
            max_points |-> 1000, feedback |-> "Handles every case."],
           [criterion_name |-> "Correctness", points_awarded |-> 200,
            max_points |-> 1000, feedback |-> "On second thought, no."] >>]

\* more than the criterion's maximum, and a blank feedback
GenerousVote ==
    [breakdown |->
        << [criterion_name |-> "Correctness", points_awarded |-> 1400,
            max_points |-> 1000, feedback |-> "Beyond expectations."],
           [criterion_name |-> "Quality", points_awarded |-> 600,
            max_points |-> 600, feedback |-> " "] >>,
     overall_feedback |-> ""]

\* what the LLM may answer a voter
VoterResponses ==
    { [text |-> PlainText, payload |-> LowVote],
      [text |-> PlainText, payload |-> HighVote],
      [text |-> FencedText, payload |-> OtherSpellingVote],
      [text |-> ProseText, payload |-> NestedStyleVote],
      [text |-> PlainText, payload |-> TwiceVote],
      [text |-> PlainText, payload |-> GenerousVote],
      [text |-> EmptyObjectText, payload |-> <<>>],
      [text |-> GarbageText, payload |-> <<>>] }

NoResponse == [text |-> <<>>, payload |-> <<>>]

\* VotingGrader.__init__: temperature_range = (0.3, 0.7)
TemperatureRanges == { <<Rat(3, 10), Rat(7, 10)>> }

\* 0.5 point, in units of 0.005 point
HalfPoint == 100

\* the breakdown of one parsed response: at the root, or else in final_grade
BreakdownOf(parsed_response) ==
    IF Get(parsed_response, "breakdown", <<>>) # <<>>
        THEN Get(parsed_response, "breakdown", <<>>)
        ELSE Get(Get(parsed_response, "final_grade", <<>>), "breakdown", <<>>)

\* the name a voter's item is filed under ("None" when it has no name)
ItemName(item) == Get(item, "criterion_name", Get(item, "criterion", "None"))

ItemScore(item) == Get(item, "points_awarded", Get(item, "score", 0))

ItemFeedback(item) == Get(item, "feedback", "")

\* all items of all grades, in the order the two loops visit them
RECURSIVE AllItems(_)
AllItems(gs) ==
    IF gs = <<>> THEN <<>>
    ELSE BreakdownOf(Head(gs)[2]) \o AllItems(Tail(gs))

\* criterion_votes[name] and feedback_collection[name]
criterion_votes(gs, name) ==
    LET items == SelectSeq(AllItems(gs), LAMBDA it : ItemName(it) = name)
    IN  [k \in 1..Len(items) |-> ItemScore(items[k])]

feedback_collection(gs, name) ==
    LET items == SelectSeq(AllItems(gs), LAMBDA it : ItemName(it) = name)
    IN  [k \in 1..Len(items) |-> ItemFeedback(items[k])]

RECURSIVE SumSeq(_)
SumSeq(xs) == IF xs = <<>> THEN 0 ELSE Head(xs) + SumSeq(Tail(xs))

RECURSIVE Insert(_, _)
Insert(x, sorted) ==
    IF sorted = <<>> THEN <<x>>
    ELSE IF x <= Head(sorted) THEN <<x>> \o sorted
    ELSE <<Head(sorted)>> \o Insert(x, Tail(sorted))

RECURSIVE Sorted(_)
Sorted(xs) == IF xs = <<>> THEN <<>> ELSE Insert(Head(xs), Sorted(Tail(xs)))

\* statistics.median: the middle value, or the mean of the two middle ones
median(scores) ==
    LET n == Len(scores)
        srt == Sorted(scores)
    IN  IF n % 2 = 1 THEN Whole(srt[(n + 1) \div 2])
        ELSE Rat(srt[n \div 2] + srt[n \div 2 + 1], 2)

\* statistics.mean
mean(scores) == Rat(SumSeq(scores), Len(scores))

\* abs(score - median_score) <= 0.5
NearMedian(score, median_score) ==
    LET diff == RatSub(Whole(score), median_score)
    IN  RatLeq(diff, Whole(HalfPoint)) /\ RatLeq(Whole(-HalfPoint), diff)

\* f.strip() is empty
IsBlank(f) == f \in {"", " ", "  "}

\* list(dict.fromkeys(...)): the first occurrence of each string, in order
RECURSIVE Unique(_)
Unique(fs) ==
    IF fs = <<>> THEN <<>>
    ELSE LET rest == Unique(SelectSeq(Tail(fs), LAMBDA f : f # Head(fs)))
         IN  <<Head(fs)>> \o rest

merge_feedback_keeping_duplicates(feedback_list) ==
    LET kept == SelectSeq(feedback_list, LAMBDA f : ~IsBlank(f))
    IN  IF Len(kept) = 0 THEN "Consensus evaluation"
        ELSE IF Len(kept) = 1 THEN kept[1]
        ELSE kept[1] \o " " \o kept[2]

\* VotingSystem._merge_feedback
merge_feedback(feedback_list) ==
    LET unique_feedbacks == Unique(SelectSeq(feedback_list, LAMBDA f : ~IsBlank(f)))
    IN  IF feedback_list = <<>> THEN "Consensus evaluation"
        ELSE IF Len(unique_feedbacks) = 0 THEN "Consensus evaluation"
        ELSE IF Len(unique_feedbacks) = 1 THEN unique_feedbacks[1]
        ELSE unique_feedbacks[1] \o " " \o unique_feedbacks[2]

\* the feedback of the votes within half a point of the median
relevant_feedbacks(scores, feedbacks) ==
    LET near == SelectSeq([k \in 1..Len(scores) |-> k],
                          LAMBDA k : NearMedian(scores[k], median(scores)))
    IN  [j \in 1..Len(near) |-> feedbacks[near[j]]]

aggregated_score_median(gs, criterion) ==
    [criterion_name |-> criterion.name,
     points_awarded |-> median(criterion_votes(gs, criterion.name)),
     max_points |-> criterion.max_points,
     feedback |->
         merge_feedback(
             relevant_feedbacks(criterion_votes(gs, criterion.name),
                                feedback_collection(gs, criterion.name)))]

\* the CriterionScore of one rubric criterion that has votes
aggregated_score(gs, criterion) ==
    [criterion_name |-> criterion.name,
     points_awarded |-> mean(criterion_votes(gs, criterion.name)),
     max_points |-> criterion.max_points,
     feedback |->
         merge_feedback(
             relevant_feedbacks(criterion_votes(gs, criterion.name),
                                feedback_collection(gs, criterion.name)))]

aggregated_breakdown_zero_filled(gs, criteria) ==
    [k \in 1..Len(criteria) |->
        IF criterion_votes(gs, criteria[k].name) = <<>>
            THEN [criterion_name |-> criteria[k].name, points_awarded |-> Whole(0),
                  max_points |-> criteria[k].max_points,
                  feedback |-> "Consensus evaluation"]
            ELSE aggregated_score(gs, criteria[k])]

\* the loop over request.rubric.criteria: a criterion without votes is skipped
aggregated_breakdown(gs, criteria) ==
    LET voted == SelectSeq(criteria, LAMBDA c : criterion_votes(gs, c.name) # <<>>)
    IN  [k \in 1..Len(voted) |-> aggregated_score(gs, voted[k])]

RECURSIVE SumPoints(_)
SumPoints(breakdown) ==
    IF breakdown = <<>> THEN Whole(0)
    ELSE RatAdd(Head(breakdown).points_awarded, SumPoints(Tail(breakdown)))

\* the overall feedback of one parsed response: at the root, or else in
\* final_grade
OverallFeedbackOf(parsed) ==
    IF Get(parsed, "overall_feedback", "") # ""
        THEN Get(parsed, "overall_feedback", "")
        ELSE Get(Get(parsed, "final_grade", <<>>), "overall_feedback", "")

overall_feedbacks(gs) ==
    LET all == [k \in 1..Len(gs) |-> OverallFeedbackOf(gs[k][2])]
    IN  SelectSeq(all, LAMBDA f : f # "")

total_score_first_only(breakdown) ==
    IF breakdown = <<>> THEN Whole(0) ELSE Head(breakdown).points_awarded

\* sum(c.points_awarded for c in aggregated_breakdown)
total_score_of(breakdown) == SumPoints(breakdown)

\* VotingSystem._aggregate_votes: ok = FALSE stands for pydantic's
\* ValidationError
aggregate_votes(gs, req) ==
    LET breakdown == aggregated_breakdown(gs, req.rubric.criteria)
        total_score == total_score_of(breakdown)
        result ==
            [final_score |-> total_score,
             total_points |-> req.rubric.total_points,
             percentage |-> Percentage(total_score, req.rubric.total_points),
             breakdown |-> breakdown,
             overall_feedback |-> merge_feedback(overall_feedbacks(gs)),
             grading_strategy |-> "voting"]
    IN  IF /\ \A k \in 1..Len(breakdown) : CriterionScoreValid(breakdown[k])
           /\ GradingResultValid(result)
            THEN [ok |-> TRUE, value |-> result]
            ELSE [ok |-> FALSE, value |-> NoResult]

parse_all_or_nothing(rs) ==
    IF \E k \in 1..Len(rs) : ~ParseResponse(rs[k]).ok THEN <<>>
    ELSE [j \in 1..Len(rs) |-> <<j, ParseResponse(rs[j]).value>>]

\* the loop "Parse all responses": the voters whose response parses, with
\* their position (counted from 1)
parse_all(rs) ==
    LET parsing == SelectSeq([k \in 1..Len(rs) |-> k],
                             LAMBDA k : ParseResponse(rs[k]).ok)
    IN  [j \in 1..Len(parsing) |-> <<parsing[j], ParseResponse(rs[parsing[j]]).value>>]

\* the temperature of voter i (counted from 0)
voter_temperature(min_temp, max_temp, n, i) ==
    RatAdd(min_temp, RatTimes(RatOver(RatSub(max_temp, min_temp), n - 1), i))

VoteIdle ==
    /\ num_voters = 0
    /\ temperature_range = <<Whole(0), Whole(0)>>
    /\ vote_pc = "idle"
    /\ voter_requests = <<>>
    /\ tasks = <<>>
    /\ responses = <<>>
    /\ grades = <<>>
    /\ vote_result = NoResult
    /\ vote_error = "none"
    /\ first_done = 0

VoteInit ==
    /\ request \in Requests
    /\ num_voters \in 1..MaxVoters
    /\ temperature_range \in TemperatureRanges
    /\ vote_pc = "called"
    /\ voter_requests = <<>>
    /\ tasks = <<>>
    /\ responses = <<>>
    /\ grades = <<>>
    /\ vote_result = NoResult
    /\ vote_error = "none"
    /\ first_done = 0

VoteRaise(e) ==
    /\ vote_pc' = "raised"
    /\ vote_error' = e

\* VotingGrader.grade and VotingSystem.grade up to the await: the request is
\* validated, the N voter requests are made and their tasks started
VoteStart ==
    /\ vote_pc = "called"
    /\ IF ~validate_request(request)
          THEN /\ VoteRaise("InvalidRequest")
               /\ UNCHANGED <<voter_requests, tasks>>
          ELSE IF num_voters - 1 = 0
          THEN /\ VoteRaise("ZeroDivisionError")
               /\ UNCHANGED <<voter_requests, tasks>>
          ELSE /\ voter_requests' =
                      [i \in 1..num_voters |->
                          [temperature |->
                               voter_temperature(temperature_range[1],
                                                 temperature_range[2],
                                                 num_voters, i - 1),
                           max_tokens |-> 3000]]
               /\ tasks' = [i \in 1..num_voters |->
                               [status |-> "pending", response |-> NoResponse]]
               /\ vote_pc' = "gathering"
               /\ UNCHANGED vote_error
    /\ UNCHANGED <<num_voters, temperature_range, responses, grades, vote_result,
                   first_done>>
    /\ VoteFrame

\* one chat_completion_async task gets its response
VoterResponds(i, r) ==
    /\ vote_pc = "gathering"
    /\ tasks[i].status = "pending"
    /\ tasks' = [tasks EXCEPT ![i] = [status |-> "done", response |-> r]]
    /\ first_done' = IF first_done = 0 THEN i ELSE first_done
    /\ UNCHANGED <<num_voters, temperature_range, vote_pc, voter_requests,
                   responses, grades, vote_result, vote_error>>
    /\ VoteFrame

\* one chat_completion_async task fails in the transport and re-raises
VoterFails(i) ==
    /\ vote_pc = "gathering"
    /\ tasks[i].status = "pending"
    /\ tasks' = [tasks EXCEPT ![i] = [status |-> "failed", response |-> NoResponse]]
    /\ UNCHANGED <<num_voters, temperature_range, vote_pc, voter_requests,
                   responses, grades, vote_result, vote_error, first_done>>
    /\ VoteFrame

\* asyncio.gather(*tasks) returns once every task has returned
gather_ready == \A i \in 1..num_voters : tasks[i].status = "done"

\* asyncio.gather(*tasks) raises the exception of a task that failed
gather_failed == \E i \in 1..num_voters : tasks[i].status = "failed"

\* the exception of a failed task comes out of gather, of
\* batch_chat_completions and of both grade()
GatherRaises ==
    /\ vote_pc = "gathering"
    /\ gather_failed
    /\ VoteRaise("TransportError")
    /\ UNCHANGED <<num_voters, temperature_range, voter_requests, tasks,
                   responses, grades, vote_result, first_done>>
    /\ VoteFrame

\* the list in completion order as far as the model knows it: the response
\* that arrived first, then the others
gather_results_first_done_first ==
    LET order == <<first_done>> \o
                 SelectSeq([i \in 1..num_voters |-> i], LAMBDA i : i # first_done)
    IN  [k \in 1..num_voters |-> tasks[order[k]].response]

\* what asyncio.gather(*tasks) returns: the result of the i-th task at
\* position i, the tasks being made from the requests in order
gather_results == [i \in 1..num_voters |-> tasks[i].response]

\* gather returns the responses in the order of the requests; they are
\* parsed and aggregated
GatherReturns ==
    /\ vote_pc = "gathering"
    /\ ~gather_failed
    /\ gather_ready
    /\ LET rs == gather_results
           gs == parse_all(rs)
       IN  /\ responses' = rs
           /\ grades' = gs
           /\ IF gs = <<>>
                 THEN VoteRaise("NoValidGrades") /\ UNCHANGED vote_result
                 ELSE IF aggregate_votes(gs, request).ok
                 THEN /\ vote_pc' = "returned"
                      /\ vote_result' = aggregate_votes(gs, request).value
                      /\ UNCHANGED vote_error
                 ELSE VoteRaise("ValidationError") /\ UNCHANGED vote_result
    /\ UNCHANGED <<num_voters, temperature_range, voter_requests, tasks,
                   first_done>>
    /\ VoteFrame

VoteNext ==
    \/ VoteStart
    \/ \E i \in 1..num_voters, r \in VoterResponses : VoterResponds(i, r)
    \/ \E i \in 1..num_voters : VoterFails(i)
    \/ GatherRaises
    \/ GatherReturns

\* ------------------------------------------------- single-call strategies

\* the rubric of the GradingRequest example: 5 + 3 + 2 = 10 points
ExampleRubric ==
    [criteria |-> << [name |-> "Correctness", max_points |-> 1000],
                     [name |-> "Code Quality", max_points |-> 600],
                     [name |-> "Efficiency", max_points |-> 400] >>,
     total_points |-> 2000]

ExampleRequest == [GoodRequest EXCEPT !.rubric = ExampleRubric]

DirectRequests == Requests \cup {ExampleRequest}

\* the format COT_USER_PROMPT_TEMPLATE requires, with perfect scores on the
\* example rubric: everything under final_grade
PerfectGrade ==
    [reasoning |-> [understanding |-> "Return the larger of two integers."],
     final_grade |->
        [breakdown |->
            << [criterion |-> "Correctness", score |-> 1000, max_score |-> 1000,
                feedback |-> "Returns the maximum."],
               [criterion |-> "Code Quality", score |-> 600, max_score |-> 600,
                feedback |-> "Clean code."],
               [criterion |-> "Efficiency", score |-> 400, max_score |-> 400,
                feedback |-> "Constant time."] >>,
         total_score |-> 2000, total_possible |-> 2000,
         percentage |-> Whole(100),
         overall_feedback |-> "A complete and correct solution."]]

\* the same format for the two-criterion rubric
NestedGrade ==
    [final_grade |->
        [breakdown |->
            << [criterion |-> "Correctness", score |-> 1000, max_score |-> 1000,
                feedback |-> "Handles every case."],
               [criterion |-> "Quality", score |-> 400, max_score |-> 600,
                feedback |-> "Naming could be clearer."] >>,
         total_score |-> 1400, total_possible |-> 1600,
         percentage |-> Rat(175, 2),
         overall_feedback |-> "Solid work with small style issues."]]

\* the format FEW_SHOT_USER_PROMPT_TEMPLATE requires: everything at the top
\* level
TopLevelGrade ==
    [breakdown |->
        << [criterion_name |-> "Correctness", points_awarded |-> 1000,
            max_points |-> 1000, feedback |-> "Handles every case."],
           [criterion_name |-> "Quality", points_awarded |-> 400,
            max_points |-> 600, feedback |-> "Naming could be clearer."] >>,
     total_score |-> 1400, total_possible |-> 1600,
     percentage |-> Rat(175, 2),
     overall_feedback |-> "Solid work with small style issues."]

\* every field at both levels, with different values
BothLevelsGrade ==
    [breakdown |-> TopLevelGrade.breakdown,
     total_score |-> 1400, total_possible |-> 1600,
     percentage |-> Rat(175, 2),
     overall_feedback |-> "Solid work with small style issues.",
     final_grade |->
        [breakdown |-> HarshGrade.breakdown,
         total_score |-> 800, total_possible |-> 1600,
         percentage |-> Whole(50),
         overall_feedback |-> "The solution ignores one branch."]]

ZeroItems ==
    << [criterion |-> "Correctness", score |-> 0, max_score |-> 1000,
        feedback |-> "Does not compile."],
       [criterion |-> "Quality", score |-> 0, max_score |-> 600,
        feedback |-> "Nothing to assess."] >>

\* 0 out of a total of 10 that the rubric does not have, and "50 percent"
ZeroOfTenGrade ==
    [final_grade |->
        [total_score |-> 0, total_possible |-> 2000, percentage |-> Whole(50),
         overall_feedback |-> "The submission does not compile."],
     breakdown |-> ZeroItems]

\* 4 out of a total of 10 that the rubric does not have
RescaledGrade ==
    [final_grade |->
        [total_score |-> 800, total_possible |-> 2000, percentage |-> Whole(40),
         overall_feedback |-> "The solution ignores one branch."],
     breakdown |-> HarshGrade.breakdown]

\* the right total, and a percentage that does not follow from the score
OwnFigureGrade ==
    [final_grade |->
        [total_score |-> 800, total_possible |-> 1600, percentage |-> Whole(90),
         overall_feedback |-> "The solution ignores one branch."],
     breakdown |-> HarshGrade.breakdown]

\* no total_possible
NoTotalGrade ==
    [final_grade |->
        [total_score |-> 1400, percentage |-> Rat(175, 2),
         overall_feedback |-> "Solid work with small style issues."],
     breakdown |-> FullGrade.breakdown]

\* 7 points on a criterion worth 5
OverMaxGrade ==
    [final_grade |->
        [total_score |-> 1400, total_possible |-> 1600,
         percentage |-> Rat(175, 2),
         overall_feedback |-> "Exceeds what was asked for."],
     breakdown |->
        << [criterion |-> "Correctness", score |-> 1400, max_score |-> 1000,
            feedback |-> "Beyond expectations."],
           [criterion |-> "Quality", score |-> 0, max_score |-> 600,
            feedback |-> "Unreadable."] >>]

\* one criterion only
PartialGrade ==
    [final_grade |->
        [total_score |-> 400, total_possible |-> 1600, percentage |-> Whole(25),
         overall_feedback |-> "Only style was assessed."],
     breakdown |->
        << [criterion |-> "Quality", score |-> 400, max_score |-> 600,
            feedback |-> "Naming could be clearer."] >>]

\* the criteria in the other order
ReversedGrade ==
    [final_grade |-> FullGrade.final_grade,
     breakdown |-> <<FullGrade.breakdown[2], FullGrade.breakdown[1]>>]

\* what the LLM may answer a single-call grader
DirectResponses ==
    { [text |-> PlainText, payload |-> PerfectGrade],
      [text |-> PlainText, payload |-> NestedGrade],
      [text |-> PlainText, payload |-> TopLevelGrade],
      [text |-> PlainText, payload |-> BothLevelsGrade],
      [text |-> PlainText, payload |-> FullGrade],
      [text |-> FencedText, payload |-> ZeroOfTenGrade],
      [text |-> PlainText, payload |-> RescaledGrade],
      [text |-> PlainText, payload |-> OwnFigureGrade],
      [text |-> ProseText, payload |-> NoTotalGrade],
      [text |-> PlainText, payload |-> OverMaxGrade],
      [text |-> PlainText, payload |-> PartialGrade],
      [text |-> PlainText, payload |-> ReversedGrade],
      [text |-> EmptyObjectText, payload |-> <<>>],
      [text |-> GarbageText, payload |-> <<>>] }

\* the graders that make one call: ChainOfThoughtGrader, FewShotCoTGrader
DirectStrategies == {"cot", "few_shot_cot"}

DirectIdle ==
    /\ direct_strategy = ""
    /\ direct_pc = "idle"
    /\ direct_calls = 0
    /\ direct_response = NoResponse
    /\ direct_result = NoResult
    /\ direct_error = "none"

DirectInit ==
    /\ request \in DirectRequests
    /\ direct_strategy \in DirectStrategies
    /\ direct_pc = "called"
    /\ direct_calls = 0
    /\ direct_response = NoResponse
    /\ direct_result = NoResult
    /\ direct_error = "none"

DirectRaise(e) ==
    /\ direct_pc' = "raised"
    /\ direct_error' = e

\* a parse failure is logged and raised again, by _parse_llm_response and
\* by grade(); the mutation goes back to the call instead
after_parse_failure_retry == "llm_call"

after_parse_failure == "raised"

\* grade(), up to the LLM call: the request is validated
DirectValidate ==
    /\ direct_pc = "called"
    /\ IF validate_request(request)
          THEN direct_pc' = "llm_call" /\ UNCHANGED direct_error
          ELSE DirectRaise("InvalidRequest")
    /\ UNCHANGED <<direct_strategy, direct_calls, direct_response, direct_result>>
    /\ DirectFrame

\* chat_completion raises; grade() logs and raises again
DirectCallFails ==
    /\ direct_pc = "llm_call"
    /\ direct_calls' = direct_calls + 1
    /\ DirectRaise("TransportError")
    /\ UNCHANGED <<direct_strategy, direct_response, direct_result>>
    /\ DirectFrame

\* chat_completion returns the response text
DirectCall(r) ==
    /\ direct_pc = "llm_call"
    /\ direct_calls' = direct_calls + 1
    /\ direct_response' = r
    /\ direct_pc' = "parse"
    /\ UNCHANGED <<direct_strategy, direct_result, direct_error>>
    /\ DirectFrame

\* the response is parsed and the result built from it
DirectBuildResult ==
    /\ direct_pc = "parse"
    /\ LET parsed == ParseResponse(direct_response)
           built == build_result(parsed.value, request, direct_strategy)
       IN  IF ~parsed.ok
              THEN /\ direct_pc' = after_parse_failure
                   /\ direct_error' = "UnparsableResponse"
                   /\ UNCHANGED direct_result
              ELSE IF built.ok
              THEN /\ direct_pc' = "returned"
                   /\ direct_result' = built.value
                   /\ UNCHANGED direct_error
              ELSE DirectRaise("ValidationError") /\ UNCHANGED direct_result
    /\ UNCHANGED <<direct_strategy, direct_calls, direct_response>>
    /\ DirectFrame

DirectNext ==
    \/ DirectValidate
    \/ DirectCallFails
    \/ \E r \in DirectResponses : DirectCall(r)
    \/ DirectBuildResult

\* ------------------------------------------------------- batch entry point

\* the field constraints of GradingRequest, checked when one is constructed
GradingRequestValid(req) ==
    /\ Len(req.problem_description) >= 10
    /\ Len(req.reference_solution) >= 10
    /\ Len(req.student_code) >= 1

\* the outcome of the one LLM call of a single-call grader
TransportFailure == [failed |-> TRUE, response |-> NoResponse]

Answered(r) == [failed |-> FALSE, response |-> r]

\* grade() of a single-call grader as a function of the answer to its call:
\* ok = FALSE stands for the exception raised
direct_grade(req, strategy, answer) ==
    LET parsed == ParseResponse(answer.response)
        built == build_result(parsed.value, req, strategy)
    IN  IF ~validate_request(req)
            THEN [ok |-> FALSE, value |-> NoResult, error |-> "Invalid grading request"]
        ELSE IF answer.failed
            THEN [ok |-> FALSE, value |-> NoResult, error |-> "Connection error."]
        ELSE IF ~parsed.ok
            THEN [ok |-> FALSE, value |-> NoResult,
                  error |-> "Could not extract valid JSON from LLM response"]
        ELSE IF ~built.ok
            THEN [ok |-> FALSE, value |-> NoResult, error |-> "validation error"]
        ELSE [ok |-> TRUE, value |-> built.value, error |-> "None"]

\* the body of the try in the loop: the request of one submission is
\* constructed and graded
grade_one(breq, sub, answer) ==
    LET single_req ==
            [problem_description |-> breq.problem_description,
             reference_solution |-> breq.reference_solution,
             student_code |-> sub.student_code,
             rubric |-> breq.rubric]
    IN  IF ~GradingRequestValid(single_req)
            THEN [ok |-> FALSE, value |-> NoResult, error |-> "validation error"]
            ELSE direct_grade(single_req, breq.grading_strategy, answer)

\* the BatchItemResult appended for one submission; NoResult and "None"
\* stand for None
item_entry(sub, outcome) ==
    IF outcome.ok
        THEN [filename |-> sub.filename, result |-> outcome.value, error |-> "None"]
        ELSE [filename |-> sub.filename, result |-> NoResult, error |-> outcome.error]

ok_counts_every_item(count, outcome) == count + 1

\* ok += 1 is reached only when grade() returned
ok_after(count, outcome) == IF outcome.ok THEN count + 1 ELSE count

\* the keys of the graders dict
graders == {"cot", "few_shot_cot", "voting", "evaluator_optimizer"}

Submissions ==
    { [filename |-> "alice.cpp", student_code |-> "int max(int a, int b) { return a; }"],
      [filename |-> "bob.cpp", student_code |-> "int max(int a, int b) { return b; }"] }

\* the requests of the batch endpoint; the strategies graded here are the
\* single-call ones, "zero_shot" is not a key of graders, and the short
\* description passes BatchGradingRequest but not GradingRequest
BatchRequests ==
    { [problem_description |-> pd,
       reference_solution |-> GoodRequest.reference_solution,
       rubric |-> rb,
       grading_strategy |-> st,
       submissions |-> subs] :
        pd \in {GoodRequest.problem_description, "max(a,b)"},
        rb \in {ValidRubric, InconsistentRubric},
        st \in DirectStrategies \cup {"zero_shot"},
        subs \in SeqsUpTo(Submissions, MaxSubmissions) \ {<<>>} }

NoBatchRequest ==
    [problem_description |-> "", reference_solution |-> "", rubric |-> NoRubric,
     grading_strategy |-> "", submissions |-> <<>>]

NoBatchResponse == [count |-> 0, ok |-> 0, results |-> <<>>]

\* what the LLM call of one item may come to
BatchAnswers ==
    { Answered([text |-> PlainText, payload |-> FullGrade]),
      Answered([text |-> PlainText, payload |-> PerfectGrade]),
      Answered([text |-> GarbageText, payload |-> <<>>]),
      TransportFailure }

BatchIdle ==
    /\ batch_request = NoBatchRequest
    /\ batch_pc = "idle"
    /\ results = <<>>
    /\ ok = 0
    /\ batch_response = NoBatchResponse

BatchInit ==
    /\ batch_request \in BatchRequests
    /\ batch_pc = "called"
    /\ results = <<>>
    /\ ok = 0
    /\ batch_response = NoBatchResponse

\* the rubric and the strategy are checked; HTTP 400 when one is refused
BatchAccept ==
    /\ batch_pc = "called"
    /\ batch_pc' =
          IF ~validate_total(batch_request.rubric) THEN "rejected"
          ELSE IF batch_request.grading_strategy \notin graders THEN "rejected"
          ELSE "grading"
    /\ UNCHANGED <<batch_request, results, ok, batch_response>>
    /\ BatchFrame

\* one iteration of the loop over request.submissions
GradeSubmission(answer) ==
    /\ batch_pc = "grading"
    /\ Len(results) < Len(batch_request.submissions)
    /\ LET sub == batch_request.submissions[Len(results) + 1]
           outcome == grade_one(batch_request, sub, answer)
       IN  /\ results' = Append(results, item_entry(sub, outcome))
           /\ ok' = ok_after(ok, outcome)
    /\ UNCHANGED <<batch_request, batch_pc, batch_response>>
    /\ BatchFrame

\* after the loop: BatchGradingResult(count=len(results), ok=ok, results=results)
BatchReturn ==
    /\ batch_pc = "grading"
    /\ Len(results) = Len(batch_request.submissions)
    /\ batch_response' = [count |-> Len(results), ok |-> ok, results |-> results]
    /\ batch_pc' = "returned"
    /\ UNCHANGED <<batch_request, results, ok>>
    /\ BatchFrame

BatchNext ==
    \/ BatchAccept
    \/ \E answer \in BatchAnswers : GradeSubmission(answer)
    \/ BatchReturn

\* ---------------------------------------------------------- specifications

InitParse ==
    /\ ParseInit /\ RubricIdle /\ request = NoRequest /\ IterIdle /\ VoteIdle
    /\ DirectIdle /\ BatchIdle

InitRubric ==
    /\ RubricInit /\ ParseIdle /\ request = NoRequest /\ IterIdle /\ VoteIdle
    /\ DirectIdle /\ BatchIdle

InitIter ==
    IterInit /\ ParseIdle /\ RubricIdle /\ VoteIdle /\ DirectIdle /\ BatchIdle

InitVote ==
    VoteInit /\ ParseIdle /\ RubricIdle /\ IterIdle /\ DirectIdle /\ BatchIdle

InitDirect ==
    DirectInit /\ ParseIdle /\ RubricIdle /\ IterIdle /\ VoteIdle /\ BatchIdle

InitBatch ==
    /\ BatchInit /\ ParseIdle /\ RubricIdle /\ request = NoRequest /\ IterIdle
    /\ VoteIdle /\ DirectIdle

SpecParse == InitParse /\ [][ParseNext]_vars

SpecRubric == InitRubric /\ [][RubricNext]_vars

SpecIter == InitIter /\ [][IterNext]_vars

SpecVote == InitVote /\ [][VoteNext]_vars

SpecDirect == InitDirect /\ [][DirectNext]_vars

SpecBatch == InitBatch /\ [][BatchNext]_vars

\* grade() runs synchronously and every LLM call returns or raises
SpecIterLive == InitIter /\ [][IterNext]_vars /\ WF_vars(IterNext)

\* one grade() of any of the strategies
InitStrategies == InitDirect \/ InitIter \/ InitVote

StrategiesNext == DirectNext \/ IterNext \/ VoteNext

SpecStrategies == InitStrategies /\ [][StrategiesNext]_vars

\* ------------------------------------------------------------------ claims

\* every critique made so far said approved = false and listed issues
EveryCritiqueRejects ==
    \A k \in 1..Len(iteration_history) :
        iteration_history[k][2] # <<>> => has_issues(iteration_history[k][2])

\* C1: with max_iterations = 3 and an Optimizer that always answers
\* approved = false with issues, a grade() that returns made exactly 3
\* Evaluator calls (1 initial grade + 2 refinements).
C1_ThreeEvaluatorCalls ==
    (it_pc = "returned" /\ max_iterations = 3 /\ EveryCritiqueRejects)
        => (evaluator_calls = 3 /\ refine_calls = 2)

FirstCritiqueApproved ==
    /\ Len(iteration_history) >= 1
    /\ iteration_history[1][2] # <<>>
    /\ iteration_history[1][2].approved

\* C2: when max_iterations >= 2 and the first critique is approved, there is
\* exactly 1 Evaluator call, exactly 1 Optimizer call and no refine call, and
\* the result returned is the one built from the initial grade.
C2_ApprovedAtFirstCritique ==
    (max_iterations >= 2 /\ FirstCritiqueApproved) =>
        /\ evaluator_calls = 1
        /\ optimizer_calls = 1
        /\ refine_calls = 0
        /\ it_pc \in {"build", "returned", "raised"}
        /\ (it_pc = "returned" =>
               it_result =
                   build_result(iteration_history[1][1], request,
                                "evaluator_optimizer").value)

\* grade() returned after a first critique that approved while listing issues
C2_Witness ==
    /\ it_pc = "returned"
    /\ max_iterations = 3
    /\ FirstCritiqueApproved
    /\ Len(iteration_history[1][2].issues_found) > 0
    /\ it_result.final_score = Whole(1400)

\* C3: for every max_iterations >= 1 and whatever the Optimizer answers,
\* grade() makes at most max_iterations Evaluator calls and at most
\* max_iterations - 1 Optimizer calls, and it terminates.
C3_BoundedCalls ==
    /\ [](max_iterations >= 1 =>
            /\ evaluator_calls <= max_iterations
            /\ optimizer_calls <= max_iterations - 1)
    /\ <>(it_pc \in {"returned", "raised"})

\* a run that used the whole budget of Optimizer calls
C3_Witness ==
    /\ it_pc = "returned"
    /\ max_iterations = 4
    /\ optimizer_calls = 3
    /\ evaluator_calls = 3

\* the responses of the tasks that returned, in the order of the requests
ReturnedResponses ==
    LET done == SelectSeq([i \in 1..Len(tasks) |-> i],
                          LAMBDA i : tasks[i].status = "done")
    IN  [k \in 1..Len(done) |-> tasks[done[k]].response]

\* C4: when the call of one voter fails in the transport and the calls of all
\* the other voters return responses that parse and aggregate, grade() does
\* not abort: it returns the result aggregated from the voters that succeeded.
C4_FailureLeavesAHole ==
    \A i \in 1..Len(tasks) :
        ( /\ vote_pc \in {"returned", "raised"}
          /\ tasks[i].status = "failed"
          /\ \A j \in 1..Len(tasks) \ {i} : tasks[j].status = "done"
          /\ parse_all(ReturnedResponses) # <<>>
          /\ aggregate_votes(parse_all(ReturnedResponses), request).ok )
        => /\ vote_pc = "returned"
           /\ vote_result =
                  aggregate_votes(parse_all(ReturnedResponses), request).value

\* the voters whose response text parses
ParsableVoters == {i \in 1..Len(responses) : extract_json(responses[i].text).ok}

\* the voters that have an entry in grades
GradedVoters == {grades[k][1] : k \in 1..Len(grades)}

\* C5: once the N responses are in, the voters whose text does not parse are
\* dropped and the others are kept, each once and in order, with no further
\* call; grade() raises the no-valid-grades error exactly when none parses.
C5_UnparsableVotersDropped ==
    /\ (vote_error = "NoValidGrades" => Len(responses) = num_voters)
    /\ (Len(responses) > 0 =>
           /\ Len(responses) = num_voters
           /\ Len(voter_requests) = num_voters
           /\ vote_pc \in {"returned", "raised"}
           /\ GradedVoters = ParsableVoters
           /\ Len(grades) = Cardinality(ParsableVoters)
           /\ \A k \in 1..Len(grades) - 1 : grades[k][1] < grades[k + 1][1]
           /\ (vote_error = "NoValidGrades" <=> ParsableVoters = {})
           /\ (ParsableVoters # {} => vote_error \in {"none", "ValidationError"}))

\* a result came out of two parsable voters and one that did not parse
C5_Witness ==
    /\ vote_pc = "returned"
    /\ num_voters = 3
    /\ responses[2].text = GarbageText
    /\ GradedVoters = {1, 3}
    /\ Len(vote_result.breakdown) = 2

\* the feedback strings of the votes for a criterion that lie within half a
\* point of the median of its votes
EligibleFeedback(name) ==
    LET votes == criterion_votes(grades, name)
        fbs == feedback_collection(grades, name)
    IN  {fbs[k] : k \in {j \in 1..Len(votes) : NearMedian(votes[j], median(votes))}}

HasVote(c) ==
    \E k \in 1..Len(grades) :
        \E j \in 1..Len(BreakdownOf(grades[k][2])) :
            ItemName(BreakdownOf(grades[k][2])[j]) = c.name

\* C7: the breakdown of a voting result is the rubric's criteria that have
\* at least one vote, in rubric order and with the rubric's max_points; a
\* criterion without votes and a name that is not in the rubric are absent.
C7_OnlyVotedCriteria ==
    vote_pc = "returned" =>
        LET expected == SelectSeq(request.rubric.criteria, HasVote)
            breakdown == vote_result.breakdown
        IN  /\ Len(breakdown) = Len(expected)
            /\ \A k \in 1..Len(breakdown) :
                   /\ breakdown[k].criterion_name = expected[k].name
                   /\ breakdown[k].max_points = expected[k].max_points

\* Quality got no vote and Style is not in the rubric: Correctness alone
C7_Witness ==
    /\ vote_pc = "returned"
    /\ Len(vote_result.breakdown) = 1
    /\ vote_result.breakdown[1].criterion_name = "Correctness"
    /\ \E k \in 1..Len(grades) : grades[k][2] = NestedStyleVote
    /\ criterion_votes(grades, "Quality") = <<>>

\* C8: in every voting result final_score is the sum of the points_awarded
\* of the breakdown, percentage is final_score / total_points * 100 and
\* total_points is the total_points of the request's rubric.
C8_TotalsOfBreakdown ==
    vote_pc = "returned" =>
        LET r == vote_result
            sum == SumPoints(r.breakdown)
        IN  /\ r.final_score.n * sum.d = sum.n * r.final_score.d
            /\ r.total_points = request.rubric.total_points
            /\ r.percentage.n * (r.final_score.d * r.total_points)
                   = r.final_score.n * 100 * r.percentage.d

\* 4.33 + 2.5 points of 8: two entries, a final score that is no whole unit
C8_Witness ==
    /\ vote_pc = "returned"
    /\ Len(vote_result.breakdown) = 2
    /\ vote_result.breakdown[1].points_awarded = [n |-> 2600, d |-> 3]
    /\ vote_result.breakdown[2].points_awarded = Whole(500)
    /\ vote_result.final_score = [n |-> 4100, d |-> 3]
    /\ vote_result.percentage = [n |-> 1025, d |-> 12]

\* the first of the three attempts that succeeds, in the order whole text,
\* fenced block, brace scan
FirstSuccess(s) ==
    IF DirectAttempt(s).ok THEN DirectAttempt(s)
    ELSE IF FencedAttempt(s).ok THEN FencedAttempt(s)
    ELSE IF ScanAttempt(s).ok THEN ScanAttempt(s)
    ELSE JSONDecodeError

\* an object as plain JSON, fenced, fenced with the json tag, and in prose
Wrappings(obj) ==
    { obj,
      <<"FENCE", "\n">> \o obj \o <<"\n", "FENCE">>,
      <<"FENCEjson", "\n">> \o obj \o <<"\n", "FENCE">>,
      <<"a">> \o obj \o <<"a">>,
      <<"a", "\n">> \o obj \o <<"\n">> }

\* C9: extract_json returns the result of the first attempt that parses, in
\* the order whole text, fenced block, brace scan; it raises if and only if
\* none of the three parses; and an object written as plain JSON, inside a
\* fence (tagged or not) or between prose yields the same dict.
C9_ParserOrder ==
    parse_pc # "called" =>
        /\ parse_result = FirstSuccess(text)
        /\ (parse_pc = "raised") <=>
               (~DirectAttempt(text).ok /\ ~FencedAttempt(text).ok /\ ~ScanAttempt(text).ok)
        /\ (text \in Wrappings(<<"{", "a", "}">>) =>
               parse_pc = "returned" /\ parse_result.value = [a |-> 1])
        /\ (text \in Wrappings(<<"{", "}">>) =>
               parse_pc = "returned" /\ parse_result.value = <<>>)

\* the fenced block won over an earlier, different object the scan would find
C9_Witness ==
    /\ parse_pc = "returned"
    /\ text = <<"{", "a", "}", "FENCE", "\n", "{", "}", "\n", "FENCE">>
    /\ parse_result.value = <<>>
    /\ ScanAttempt(text).value = [a |-> 1]

\* C10: for every rubric, validate_total returns true if and only if the
\* sum of the criteria's max_points differs from total_points by less than
\* 0.01 point (2 units), in either direction.
C10_ValidateTotalIff ==
    rubric_pc = "returned" =>
        LET d == SumMaxPoints(rubric.criteria) - rubric.total_points
        IN  rubric_valid <=> (-2 < d /\ d < 2)

\* a rubric whose sum is 0.005 point under its total has been accepted
C10_Witness ==
    /\ rubric_pc = "returned"
    /\ rubric_valid
    /\ SumMaxPoints(rubric.criteria) - rubric.total_points = -1

\* the response of the single call, parsed
DirectParsed == ParseResponse(direct_response)

DirectDone == direct_pc \in {"returned", "raised"}

\* C11: every result the result builder produces has total_points equal to
\* the total_points of the request's rubric, whatever total_possible the
\* response states and whether or not it states one.
C11_TotalPointsIsRubricTotal ==
    direct_pc = "returned" =>
        direct_result.total_points = request.rubric.total_points

\* a result was built from a response that states another total
C11_Witness ==
    /\ direct_pc = "returned"
    /\ stated_total_possible(DirectParsed.value, request)
           # request.rubric.total_points
    /\ direct_result.total_points = request.rubric.total_points

\* the response is in the format COT_USER_PROMPT_TEMPLATE requires and is
\* consistent: under final_grade, one breakdown entry per criterion of the
\* rubric, total_score their sum, the rubric's total, the derived percentage
InPromptFormat(parsed, req) ==
    LET fg == Get(parsed, "final_grade", <<>>)
        bd == Get(fg, "breakdown", <<>>)
        criteria == req.rubric.criteria
    IN  /\ "breakdown" \notin DOMAIN parsed
        /\ Len(bd) = Len(criteria)
        /\ \A i \in 1..Len(bd) :
              /\ Get(bd[i], "criterion", "") = criteria[i].name
              /\ Get(bd[i], "max_score", 0) = criteria[i].max_points
              /\ Get(bd[i], "score", -1) \in 0..criteria[i].max_points
              /\ Len(Get(bd[i], "feedback", "")) >= 5
        /\ Get(fg, "total_score", -1) =
               SumSeq([i \in 1..Len(bd) |-> Get(bd[i], "score", 0)])
        /\ Get(fg, "total_possible", 0) = req.rubric.total_points
        /\ Get(fg, "percentage", Whole(-1)) =
               Percentage(Whole(Get(fg, "total_score", 0)), req.rubric.total_points)
        /\ Len(Get(fg, "overall_feedback", "")) >= 10

\* C12: when the LLM answers the Direct-Reasoning grader with a consistent
\* response in the format its prompt requires, grade() returns a result
\* whose final_score is the sum of the breakdown points, whose percentage
\* is final_score / total_points * 100 and whose breakdown has one entry
\* per criterion (10.0, 100.0 and 3 entries for perfect scores on the
\* example rubric).
C12_ConsistentResponseGraded ==
    (/\ direct_strategy = "cot"
     /\ DirectDone
     /\ DirectParsed.ok
     /\ InPromptFormat(DirectParsed.value, request))
    => /\ direct_pc = "returned"
       /\ direct_result.final_score = SumPoints(direct_result.breakdown)
       /\ direct_result.percentage =
              Percentage(direct_result.final_score, direct_result.total_points)
       /\ Len(direct_result.breakdown) = Len(request.rubric.criteria)

\* a field of the response: the top-level value when there is one, or else
\* the one under final_grade
Preferred(parsed, key, default) ==
    IF key \in DOMAIN parsed THEN parsed[key]
    ELSE Get(Get(parsed, "final_grade", <<>>), key, default)

\* C13: the result builder takes each of total_score, total_possible,
\* percentage, overall_feedback and breakdown from the top level of the
\* response or from under final_grade, and from the top level when the
\* field is at both.
C13_FieldsAtEitherLevel ==
    direct_pc = "returned" =>
        /\ direct_result.final_score =
               Whole(Preferred(DirectParsed.value, "total_score", 0))
        /\ direct_result.overall_feedback =
               Preferred(DirectParsed.value, "overall_feedback", "")
        /\ Len(direct_result.breakdown) =
               Len(Preferred(DirectParsed.value, "breakdown", <<>>))
        /\ (Preferred(DirectParsed.value, "total_possible",
                      request.rubric.total_points) = request.rubric.total_points
               => direct_result.percentage =
                      Preferred(DirectParsed.value, "percentage", Whole(0)))

\* C14: whenever the total_possible of the response disagrees with the
\* rubric's total_points, the percentage of the result is
\* final_score / rubric.total_points * 100, for every final_score >= 0,
\* 0 included.
C14_PercentageRecomputed ==
    (/\ direct_pc = "returned"
     /\ stated_total_possible(DirectParsed.value, request)
            # request.rubric.total_points)
    => direct_result.percentage =
           Percentage(direct_result.final_score, request.rubric.total_points)

\* the rubric is not self-consistent or a required text field is empty
InvalidRequest(req) ==
    \/ ~validate_total(req.rubric)
    \/ req.problem_description = ""
    \/ req.reference_solution = ""
    \/ req.student_code = ""

C16_OneCallNoRetry ==
    /\ direct_calls <= 1
    /\ direct_pc \in {"parse", "returned"} => direct_calls = 1
    /\ (DirectDone /\ validate_request(request)) => direct_calls = 1
    /\ (DirectDone /\ validate_request(request) /\ ~DirectParsed.ok) =>
           /\ direct_pc = "raised"
           /\ direct_error =
                  IF direct_response = NoResponse THEN "TransportError"
                  ELSE "UnparsableResponse"
           /\ direct_result = NoResult

\* the one call returned a text that does not parse, and grade() raised
C16_Witness ==
    /\ direct_pc = "raised"
    /\ direct_response # NoResponse
    /\ ~DirectParsed.ok
    /\ direct_error = "UnparsableResponse"
    /\ direct_calls = 1

\* C18: in every result returned, each breakdown entry has
\* 0 <= points_awarded <= max_points of the rubric criterion of that name.
C18_PointsWithinMax ==
    direct_pc = "returned" =>
        \A i \in 1..Len(direct_result.breakdown) :
            \A k \in 1..Len(request.rubric.criteria) :
                request.rubric.criteria[k].name =
                    direct_result.breakdown[i].criterion_name
                => /\ RatLeq(Whole(0), direct_result.breakdown[i].points_awarded)
                   /\ RatLeq(direct_result.breakdown[i].points_awarded,
                             Whole(request.rubric.criteria[k].max_points))

\* C19: in every result the result builder returns, the breakdown has
\* exactly one entry per criterion of the request's rubric, in rubric
\* order, whatever entries the response lists.
C19_OneEntryPerCriterion ==
    direct_pc = "returned" =>
        /\ Len(direct_result.breakdown) = Len(request.rubric.criteria)
        /\ \A i \in 1..Len(direct_result.breakdown) :
               direct_result.breakdown[i].criterion_name =
                   request.rubric.criteria[i].name

\* C17: once the rubric and the strategy are accepted, the batch endpoint
\* grades all N submissions in input order: the response has count = N,
\* the i-th entry carries the i-th filename and exactly one of result and
\* error, and ok is the number of entries that carry a result; an item
\* that fails does not stop the items after it.
C17_BatchGradesEveryItem ==
    batch_pc = "returned" =>
        LET N == Len(batch_request.submissions)
            rs == batch_response.results
        IN  /\ batch_response.count = N
            /\ Len(rs) = N
            /\ \A i \in 1..N :
                  /\ rs[i].filename = batch_request.submissions[i].filename
                  /\ (rs[i].result = NoResult) # (rs[i].error = "None")
            /\ batch_response.ok =
                   Cardinality({i \in 1..N : rs[i].result # NoResult})

\* the first item failed and the second was graded all the same
C17_Witness ==
    /\ batch_pc = "returned"
    /\ Len(batch_response.results) >= 2
    /\ batch_response.results[1].error # "None"
    /\ batch_response.results[2].result # NoResult
    /\ batch_response.ok < batch_response.count

\* C20: the i-th response handed to aggregation is the response to the
\* i-th voter request, the one sent with the i-th temperature, in whatever
\* order the calls complete; and the index attached to each parsed grade
\* is the position of its voter among all voters, also after unparsable
\* voters have been dropped.
C20_VoterOrderKept ==
    (vote_pc \in {"returned", "raised"} /\ responses # <<>>) =>
        /\ Len(responses) = num_voters
        /\ \A i \in 1..num_voters :
              /\ responses[i] = tasks[i].response
              /\ voter_requests[i].temperature =
                     voter_temperature(temperature_range[1], temperature_range[2],
                                       num_voters, i - 1)
        /\ \A j \in 1..Len(grades) :
              /\ grades[j][1] \in 1..num_voters
              /\ ParseResponse(tasks[grades[j][1]].response).ok
              /\ grades[j][2] = ParseResponse(tasks[grades[j][1]].response).value
              /\ j > 1 => grades[j - 1][1] < grades[j][1]

\* a later voter answered first with another text than voter 1, and a
\* voter before a graded one was dropped
C20_Witness ==
    /\ vote_pc = "returned"
    /\ first_done > 1
    /\ tasks[first_done].response # tasks[1].response
    /\ \E j \in 1..Len(grades) : grades[j][1] # j

\* ------------------------------------------------ claims C21 .. C30

LLMCalls == evaluator_calls + optimizer_calls

\* C21: in the iterative strategy a call of the Evaluator or the Optimizer
\* that fails (the transport raises, or the response does not parse, so
\* that the call adds nothing to the iteration history) ends grade() at
\* once with that error and no result, even when an earlier grade exists;
\* after the error no further call is made.
C21_FailureStopsLoop ==
    [][/\ it_pc = "raised" => LLMCalls' = LLMCalls
       /\ (LLMCalls' # LLMCalls /\ iteration_history' = iteration_history)
            => /\ it_pc' = "raised"
               /\ it_error' \in {"TransportError", "UnparsableResponse"}
               /\ it_result' = NoResult
               /\ LLMCalls' = LLMCalls + 1]_vars

C21_Witness ==
    /\ it_pc = "raised"
    /\ it_error = "UnparsableResponse"
    /\ refine_calls = 1
    /\ current_grade # <<>>
    /\ it_result = NoResult

LastCritique(history) == history[Len(history)][2]

\* C22: after each critique, approved = true stops with the current grade;
\* otherwise a non-empty issues list with fewer than max_iterations
\* Evaluator calls made leads to a refinement whose grade becomes current;
\* otherwise the loop stops.  The result is built from the current grade.
C22_LoopDecision ==
    [][/\ (it_pc = "critique" /\ it_pc' \in {"refine", "build"})
            => it_pc' =
                 IF LastCritique(iteration_history').approved THEN "build"
                 ELSE IF /\ Len(LastCritique(iteration_history').issues_found) > 0
                         /\ evaluator_calls < max_iterations
                      THEN "refine"
                 ELSE "build"
       /\ (it_pc = "refine" /\ it_pc' \in {"critique", "build"})
            => current_grade' = iteration_history'[Len(iteration_history')][1]
       /\ (it_pc = "build" /\ it_pc' = "returned")
            => it_result' =
                 build_result(current_grade, request, "evaluator_optimizer").value
      ]_vars

\* C27: a grade() of the iterative strategy that returns with
\* max_iterations >= 2 made as many Optimizer calls as Evaluator calls,
\* every grade of the history has its critique, and the result is built
\* from the last grade of the history; with max_iterations = 1 it made one
\* Evaluator call and no Optimizer call.
C27_EveryGradeCritiqued ==
    it_pc = "returned" =>
        IF max_iterations >= 2
           THEN /\ optimizer_calls = evaluator_calls
                /\ Len(iteration_history) = evaluator_calls
                /\ \A k \in 1..Len(iteration_history) :
                       iteration_history[k][2] # <<>>
                /\ current_grade = iteration_history[Len(iteration_history)][1]
                /\ it_result =
                       build_result(iteration_history[Len(iteration_history)][1],
                                    request, "evaluator_optimizer").value
           ELSE evaluator_calls = 1 /\ optimizer_calls = 0

C27_Witness ==
    /\ it_pc = "returned"
    /\ max_iterations >= 3
    /\ refine_calls >= 1
    /\ optimizer_calls = evaluator_calls

\* C23: for every voter count N >= 1 and range (min, max), a grade() of the
\* voting strategy on a valid request makes exactly N voter requests;
\* voter i (from 0) runs at min + i*(max-min)/(N-1): voter 0 at min, voter
\* N-1 at max, every temperature within [min, max].
C23_VoterTemperatures ==
    (vote_pc # "called" /\ validate_request(request)) =>
        /\ Len(voter_requests) = num_voters
        /\ \A k \in 1..num_voters :
              LET t == voter_requests[k].temperature
                  min_temp == temperature_range[1]
                  max_temp == temperature_range[2]
              IN  /\ RatLeq(min_temp, t) /\ RatLeq(t, max_temp)
                  /\ k = 1 => t = min_temp
                  /\ (k = num_voters /\ num_voters > 1) => t = max_temp
                  /\ RatTimes(RatSub(t, min_temp), num_voters - 1)
                        = RatTimes(RatSub(max_temp, min_temp), k - 1)

\* the strings of fs without the repetitions, each at its first position
FirstSeen(fs) ==
    LET firsts == SelectSeq([k \in 1..Len(fs) |-> k],
                            LAMBDA k : \A j \in 1..(k - 1) : fs[j] # fs[k])
    IN  [j \in 1..Len(firsts) |-> fs[firsts[j]]]

\* the placeholder, the only string, or the first two joined by a space
FirstTwo(fs) ==
    IF Len(fs) = 0 THEN "Consensus evaluation"
    ELSE IF Len(fs) = 1 THEN fs[1]
    ELSE fs[1] \o " " \o fs[2]

\* the feedback of the votes for a criterion within half a point of the
\* median of its votes, in the order of the votes
NearMedianFeedback(name) ==
    LET votes == criterion_votes(grades, name)
        fbs == feedback_collection(grades, name)
        near == SelectSeq([k \in 1..Len(votes) |-> k],
                          LAMBDA k : NearMedian(votes[k], median(votes)))
    IN  [j \in 1..Len(near) |-> fbs[near[j]]]

\* C24 as stated: the feedback of every entry of a voting result is made of
\* the feedback of the votes within 0.5 point of the median, repetitions
\* removed in first-seen order: the placeholder when none is left, the
\* string itself when one is left, the first two joined otherwise.
C24_AsStated ==
    vote_pc = "returned" =>
        \A k \in 1..Len(vote_result.breakdown) :
            vote_result.breakdown[k].feedback =
                FirstTwo(FirstSeen(
                    NearMedianFeedback(vote_result.breakdown[k].criterion_name)))

\* C24: the feedback of every entry of a voting result is made of the
\* feedback of the votes within 0.5 point of the median, the blank strings
\* dropped and the repetitions removed in first-seen order: the placeholder
\* when none is left, the string itself when one is left, the first two
\* joined by a space otherwise.
C24_FeedbackMerge ==
    vote_pc = "returned" =>
        \A k \in 1..Len(vote_result.breakdown) :
            vote_result.breakdown[k].feedback =
                FirstTwo(FirstSeen(SelectSeq(
                    NearMedianFeedback(vote_result.breakdown[k].criterion_name),
                    LAMBDA f : ~IsBlank(f))))

\* three votes for Quality: a blank feedback and a full one at the median,
\* a third one a whole point below; the entry carries the full one alone
C24_Witness ==
    /\ vote_pc = "returned"
    /\ criterion_votes(grades, "Quality") = <<600, 600, 400>>
    /\ feedback_collection(grades, "Quality")
          = <<" ", "Clean and idiomatic.", "Readable enough.">>
    /\ Len(vote_result.breakdown) = 2
    /\ vote_result.breakdown[2].feedback = "Clean and idiomatic."

\* the key of the other spelling of a breakdown item
OtherSpelling(key) ==
    CASE key = "criterion" -> "criterion_name"
      [] key = "criterion_name" -> "criterion"
      [] key = "score" -> "points_awarded"
      [] key = "points_awarded" -> "score"
      [] key = "max_score" -> "max_points"
      [] key = "max_points" -> "max_score"
      [] OTHER -> key

\* the same item in the other spelling
Respelled(item) ==
    [key \in {OtherSpelling(k) : k \in DOMAIN item} |-> item[OtherSpelling(key)]]

\* the items the result builder reads
DirectItems == Get(DirectParsed.value, "breakdown", <<>>)

\* C25: the entry the result builder makes of a breakdown item is the same
\* whether the item is spelled criterion / score / max_score or
\* criterion_name / points_awarded / max_points.
C25_SpellingsAgree ==
    direct_pc = "returned" =>
        /\ Len(direct_result.breakdown) = Len(DirectItems)
        /\ \A k \in 1..Len(DirectItems) :
              /\ Respelled(DirectItems[k]) # DirectItems[k]
              /\ direct_result.breakdown[k] = BuildCriterionScore(DirectItems[k])
              /\ direct_result.breakdown[k]
                    = BuildCriterionScore(Respelled(DirectItems[k]))

\* a result built from items in the second spelling, with the names and the
\* points of the items
C25_Witness ==
    /\ direct_pc = "returned"
    /\ DirectItems = TopLevelGrade.breakdown
    /\ "criterion_name" \in DOMAIN DirectItems[2]
    /\ "criterion" \in DOMAIN Respelled(DirectItems[2])
    /\ direct_result.breakdown[2].criterion_name = "Quality"
    /\ direct_result.breakdown[2].points_awarded = Whole(400)
    /\ direct_result.breakdown[2].max_points = 600

\* the closing braces at which the depth is back to zero
ClosesAtZero(s) == {j \in 1..Len(s) : s[j] = "}" /\ brace_count_after(s, j) = 0}

\* the opening brace that matches the closing brace at j: the last one
\* before j that was read at depth zero
MatchingOpen(s, j) ==
    Max({i \in 1..j : s[i] = "{" /\ brace_count_after(s, i - 1) = 0})

\* the depth never goes below zero in s
WellNested(s) == \A k \in 1..Len(s) : brace_count_after(s, k) >= 0

\* the first of the spans from a matching opening brace to a closing brace
\* at depth zero that parses
FirstParsingSpan(s) ==
    LET parsing == {j \in ClosesAtZero(s) :
                       json_loads(SubSeq(s, MatchingOpen(s, j), j)).ok}
    IN  IF parsing = {} THEN JSONDecodeError
        ELSE json_loads(SubSeq(s, MatchingOpen(s, Min(parsing)), Min(parsing)))

\* C26: in the brace scan every span from an opening brace at depth zero to
\* the closing brace that brings the depth back to zero is tried in turn,
\* and a span that does not parse does not end the scan: the scan returns
\* the first such span that parses, also when malformed spans precede it.
C26_ScanContinues ==
    (parse_pc # "called" /\ WellNested(text)) =>
        /\ ScanAttempt(text) = FirstParsingSpan(text)
        /\ (~DirectAttempt(text).ok /\ ~FencedAttempt(text).ok)
              => parse_result = FirstParsingSpan(text)

\* a malformed balanced span, then a well-formed object, which is returned
C26_Witness ==
    /\ parse_pc = "returned"
    /\ text = <<"{", "{", "}", "}", "{", "a", "}">>
    /\ ~json_loads(SubSeq(text, 1, 4)).ok
    /\ ~DirectAttempt(text).ok /\ ~FencedAttempt(text).ok
    /\ parse_result = [ok |-> TRUE, value |-> [a |-> 1]]

\* the texts that end with a well-formed object and have no opening brace
\* before it
EndsWithLoneObject(s, k) ==
    /\ json_loads(SubSeq(s, k, Len(s))).ok
    /\ s[k] = "{"
    /\ \A i \in 1..(k - 1) : s[i] # "{"

\* C28: during the brace scan the tracked depth never goes below zero, and
\* a closing brace with no opening brace before it does not keep the scan
\* from finding a well-formed object that comes later.
C28_StrayCloserHarmless ==
    parse_pc # "called" =>
        \A k \in 1..Len(text) :
            EndsWithLoneObject(text, k) =>
                /\ \A j \in 1..Len(text) : brace_count_after(text, j) >= 0
                /\ parse_pc = "returned"
                /\ parse_result = json_loads(SubSeq(text, k, Len(text)))

\* C29: in the aggregation of a voting result each parsed voter has at most
\* one vote per rubric criterion: for every criterion the number of scores
\* that enter the mean and the median is at most the number of parsed
\* voters.
C29_OneVotePerVoter ==
    vote_pc = "returned" =>
        \A k \in 1..Len(request.rubric.criteria) :
            Len(criterion_votes(grades, request.rubric.criteria[k].name))
                <= Len(grades)

\* the numeric contract of a GradingResult
WithinContract(r) ==
    /\ RatLeq(Whole(0), r.final_score)
    /\ RatLeq(Whole(0), r.percentage) /\ RatLeq(r.percentage, Whole(100))
    /\ r.total_points > 0
    /\ Len(r.breakdown) >= 1

\* the rubric criteria that got a vote, and the sum of the means of their
\* votes
VotedCriteria ==
    {k \in 1..Len(request.rubric.criteria) :
        criterion_votes(grades, request.rubric.criteria[k].name) # <<>>}

RECURSIVE SumOfMeans(_)
SumOfMeans(ks) ==
    IF ks = {} THEN Whole(0)
    ELSE LET k == Min(ks)
         IN  RatAdd(mean(criterion_votes(grades, request.rubric.criteria[k].name)),
                    SumOfMeans(ks \ {k}))

\* the voted means sum above the rubric's total, or no criterion got a vote
VotesBreakContract ==
    \/ VotedCriteria = {}
    \/ ~RatLeq(SumOfMeans(VotedCriteria), Whole(request.rubric.total_points))

\* C30: every result a strategy returns has final_score >= 0, a percentage
\* within 0..100, total_points > 0 and a breakdown that is not empty; when
\* the parsed output breaks this (the voted means sum above the rubric's
\* total, no rubric criterion got a vote, the response has no breakdown
\* entry), grade() raises and returns no result.
C30_ResultsWithinContract ==
    /\ direct_pc = "returned" => WithinContract(direct_result)
    /\ it_pc = "returned" => WithinContract(it_result)
    /\ vote_pc = "returned" => WithinContract(vote_result)
    /\ (vote_pc \in {"returned", "raised"} /\ grades # <<>> /\ VotesBreakContract)
          => (vote_pc = "raised" /\ vote_result = NoResult)
    /\ (DirectDone /\ DirectParsed.ok /\ DirectItems = <<>>)
          => (direct_pc = "raised" /\ direct_result = NoResult)
    /\ (it_pc \in {"returned", "raised"} /\ iteration >= 1
            /\ Get(current_grade, "breakdown", <<>>) = <<>>)
          => (it_pc = "raised" /\ it_result = NoResult)

\* two voters whose means sum to 10 points on a rubric of 8: grade() raised
C30_Witness ==
    /\ vote_pc = "raised"
    /\ vote_error = "ValidationError"
    /\ Len(grades) = 2
    /\ VotedCriteria = {1, 2}
    /\ SumOfMeans(VotedCriteria) = Whole(2000)
    /\ request.rubric.total_points = 1600
    /\ vote_result = NoResult

====
